---- MODULE Spec2Model ----
(***************************************************************************)
(* Model of etc/HeaderReformat.py: one invocation of the script on one     *)
(* file, followed by further invocations on the same file.                 *)
(*                                                                         *)
(* A text is a sequence of lexemes.  A lexeme is a string standing for the *)
(* characters it spells; the literals the script's regular expressions     *)
(* name ("(C)", "Copyright", "by", "and", "Original", "Author:", "@author",*)
(* "@since", "Initial", "This", "program", the comment delimiters) are one *)
(* lexeme each, "SP", "CR" and "LF" are the space, carriage return and     *)
(* line feed, and a digit is one lexeme.  Every regular expression of the  *)
(* script is an operator that computes the match Python's re.search        *)
(* returns (leftmost start, greedy or lazy quantifiers as written).        *)
(* The script is run by Python 2, as its header line says (the mixed tab   *)
(* and space indentation of lines 39-40 is accepted by Python 2 only).     *)
(***************************************************************************)
EXTENDS Integers, Sequences, FiniteSets, TLC

\* ------------------------------------------------------------------ bounds
\* most blank lines put between the two block comments of an input file
MaxBlank == 2
\* number of successive invocations of the script on the same file
MaxRuns == 2

\* ------------------------------------------------------- lexemes and years
Digits == {"0", "1", "2", "3", "4", "5", "6", "7", "8", "9"}

IsDigit(c) == c \in Digits

\* \s of Python's re (the lexemes that spell white space)
IsSpace(c) == c \in {"SP", "CR", "LF"}

\* s[i], or "EOF" outside the text
Sym(s, i) == IF i \in 1..Len(s) THEN s[i] ELSE "EOF"

Min(S) == CHOOSE x \in S : \A y \in S : x <= y

Max(S) == CHOOSE x \in S : \A y \in S : x >= y

\* first position >= i that does not hold white space (effect of a greedy \s*)
SkipSpace(s, i) == Min({j \in i..(Len(s) + 1) : ~IsSpace(Sym(s, j))})

\* first position >= i that holds a line feed or is past the end: a greedy .*
\* without DOTALL consumes s[i..LineEnd-1] (it consumes a carriage return)
LineEnd(s, i) == Min({j \in i..(Len(s) + 1) : Sym(s, j) \in {"LF", "EOF"}})

\* first position >= i that holds no digit (effect of a greedy \d+ or \d*)
DigitsEnd(s, i) == Min({j \in i..(Len(s) + 1) : ~IsDigit(Sym(s, j))})

\* [0-9]{4,4} at position q
FourDigits(s, q) == \A d \in 0..3 : IsDigit(Sym(s, q + d))

NoMatch == [ok |-> FALSE]

\* ------------------------------------------------ the regular expressions
\* position of the second comment's "/*" when "\r?\n\n?/\*" matches right
\* after the "*/" at position j, and 0 when it does not
AfterClose(s, j) ==
  LET a == IF Sym(s, j + 1) = "CR" THEN j + 2 ELSE j + 1
      b == IF Sym(s, a) = "LF" THEN a + 1 ELSE 0
      c == IF b # 0 /\ Sym(s, b) = "LF" THEN b + 1 ELSE b
  IN IF b # 0 /\ Sym(s, c) = "/*" THEN c ELSE 0

\* re.compile('/\*(.*?)\*/\r?\n\n?/\*(.*?)\*/', re.DOTALL).search(s)
DoubleHeader(s) ==
  LET Closes(k) == {l \in (k + 1)..Len(s) : s[l] = "*/"}
      J(i) == {j \in (i + 1)..Len(s) :
                 /\ s[j] = "*/"
                 /\ AfterClose(s, j) # 0
                 /\ Closes(AfterClose(s, j)) # {}}
      I == {i \in 1..Len(s) : s[i] = "/*" /\ J(i) # {}}
  IN IF I = {} THEN NoMatch
     ELSE LET i == Min(I)
              j == Min(J(i))
              k == AfterClose(s, j)
              l == Min(Closes(k))
          IN [ok |-> TRUE, g1 |-> SubSeq(s, i + 1, j - 1),
              g2 |-> SubSeq(s, k + 1, l - 1)]

\* re.compile('\(C\)').search(s)
HasCMarker(s) == \E i \in 1..Len(s) : s[i] = "(C)"

\* re.compile('\(C\)\s*Copyright\s*(\d+)\-?(\d+)?,\s*(by)?\s*(.*)?').search(s)
CopyrightStatement(s) ==
  LET YearAt(i) == SkipSpace(s, SkipSpace(s, i + 1) + 1)
      YearEnd(i) == DigitsEnd(s, YearAt(i))
      Comma(i) == IF Sym(s, YearEnd(i)) = "-"
                  THEN DigitsEnd(s, YearEnd(i) + 1) ELSE YearEnd(i)
      Ok(i) == /\ s[i] = "(C)"
               /\ Sym(s, SkipSpace(s, i + 1)) = "Copyright"
               /\ YearEnd(i) > YearAt(i)
               /\ Sym(s, Comma(i)) = ","
      I == {i \in 1..Len(s) : Ok(i)}
  IN IF I = {} THEN NoMatch
     ELSE LET i == Min(I)
              a == SkipSpace(s, Comma(i) + 1)
              b == IF Sym(s, a) = "by" THEN a + 1 ELSE a
              c == SkipSpace(s, b)
          IN [ok |-> TRUE, g1 |-> SubSeq(s, YearAt(i), YearEnd(i) - 1),
              g4 |-> SubSeq(s, c, LineEnd(s, c) - 1)]

\* re.compile('(.*)(\sand)').search(a) for a text a of one line (group 4 of
\* CopyrightStatement holds no line feed): group 1, the text before the
\* last white space that is followed by "and"
AndSuffix(a) ==
  LET P == {p \in 1..Len(a) : IsSpace(a[p]) /\ Sym(a, p + 1) = "and"}
  IN IF P = {} THEN NoMatch
     ELSE [ok |-> TRUE, g1 |-> SubSeq(a, 1, Max(P) - 1)]

\* re.sub('[.]', '', a)
RECURSIVE RemovePeriods(_)
RemovePeriods(a) ==
  IF a = <<>> THEN <<>>
  ELSE IF Head(a) = "." THEN RemovePeriods(Tail(a))
       ELSE <<Head(a)>> \o RemovePeriods(Tail(a))

\* re.compile('Original\sAuthor:\s*(.*)').search(s)
OriginalAuthor(s) ==
  LET I == {i \in 1..Len(s) : /\ s[i] = "Original"
                              /\ IsSpace(Sym(s, i + 1))
                              /\ Sym(s, i + 2) = "Author:"}
  IN IF I = {} THEN NoMatch
     ELSE LET c == SkipSpace(s, Min(I) + 3)
          IN [ok |-> TRUE, g1 |-> SubSeq(s, c, LineEnd(s, c) - 1)]

\* re.compile('\@author\s*(Original)?(\:)?\s*(.*)').search(s)
AuthorTag(s) ==
  LET I == {i \in 1..Len(s) : s[i] = "@author"}
  IN IF I = {} THEN NoMatch
     ELSE LET a == SkipSpace(s, Min(I) + 1)
              b == IF Sym(s, a) = "Original" THEN a + 1 ELSE a
              c == IF Sym(s, b) = ":" THEN b + 1 ELSE b
              d == SkipSpace(s, c)
          IN [ok |-> TRUE, g3 |-> SubSeq(s, d, LineEnd(s, d) - 1)]

\* re.compile('\@author\s*(Original)?(\:)?\s*(.*?)').search(s): the lazy
\* last group has nothing after it and matches the empty text
AuthorTagLazy(s) ==
  IF \E i \in 1..Len(s) : s[i] = "@author"
  THEN [ok |-> TRUE, g3 |-> <<>>] ELSE NoMatch

\* re.compile('(.*)?([0-9]{4,4})(.*)?Initial').search(s): group 2 is the
\* last four digits that "Initial" follows on the first line that has any
InitialVersion(s) ==
  LET Q == {q \in 1..Len(s) :
              /\ FourDigits(s, q)
              /\ \E t \in (q + 4)..(LineEnd(s, q) - 1) : s[t] = "Initial"}
  IN IF Q = {} THEN NoMatch
     ELSE LET e == LineEnd(s, Min(Q))
          IN [ok |-> TRUE,
              g2 |-> LET q == Max({x \in Q : x < e}) IN SubSeq(s, q, q + 3)]

\* YearRange with group 1 around the first year of the range
YearRange_FirstYear(s) ==
  LET R(i) == {q \in (i + 1)..(LineEnd(s, i) - 1) :
                 FourDigits(s, q) /\ Sym(s, q + 4) = "-" /\ FourDigits(s, q + 5)}
      I == {i \in 1..Len(s) : s[i] = "(C)" /\ R(i) # {}}
  IN IF I = {} THEN NoMatch
     ELSE LET q == Min(R(Min(I)))
          IN [ok |-> TRUE, g1 |-> SubSeq(s, q, q + 3)]

\* re.compile('\(C\).*?[0-9]{4,4}-([0-9]{4,4})').search(s)
YearRange(s) ==
  LET R(i) == {q \in (i + 1)..(LineEnd(s, i) - 1) :
                 FourDigits(s, q) /\ Sym(s, q + 4) = "-" /\ FourDigits(s, q + 5)}
      I == {i \in 1..Len(s) : s[i] = "(C)" /\ R(i) # {}}
  IN IF I = {} THEN NoMatch
     ELSE LET q == Min(R(Min(I)))
          IN [ok |-> TRUE, g1 |-> SubSeq(s, q + 5, q + 8)]

\* re.compile('/\*\s*This\sprogram(.*?)\*/', re.DOTALL).search(s)
SingleHeader(s) ==
  LET E(i) == {l \in (SkipSpace(s, i + 1) + 3)..Len(s) : s[l] = "*/"}
      I == {i \in 1..Len(s) :
              /\ s[i] = "/*"
              /\ Sym(s, SkipSpace(s, i + 1)) = "This"
              /\ IsSpace(Sym(s, SkipSpace(s, i + 1) + 1))
              /\ Sym(s, SkipSpace(s, i + 1) + 2) = "program"
              /\ E(i) # {}}
  IN IF I = {} THEN NoMatch
     ELSE LET i == Min(I)
          IN [ok |-> TRUE,
              g1 |-> SubSeq(s, SkipSpace(s, i + 1) + 3, Min(E(i)) - 1)]

\* re.compile('\@since(.*?)([0-9]{4,4})').search(s)
SinceTag(s) ==
  LET R(i) == {q \in (i + 1)..(LineEnd(s, i) - 1) : FourDigits(s, q)}
      I == {i \in 1..Len(s) : s[i] = "@since" /\ R(i) # {}}
  IN IF I = {} THEN NoMatch
     ELSE LET q == Min(R(Min(I)))
          IN [ok |-> TRUE, g2 |-> SubSeq(s, q, q + 3)]

\* ---------------------------------------------------------- input files
Y(a, b, c, d) == <<a, b, c, d>>

\* line 16: year="2016"
DefaultYear == Y("2", "0", "1", "6")

\* line 15: authors="Barak Naveh"
DefaultAuthors == <<"Barak", "SP", "Naveh">>

\* the years the input files use, one per place a year can stand in
FirstY1 == Y("2", "0", "0", "1")
FirstY2 == Y("2", "0", "0", "2")
StmtY1 == Y("2", "0", "0", "3")
StmtY2 == Y("2", "0", "0", "8")
InitY == Y("2", "0", "0", "4")
SinceY == Y("1", "9", "9", "9")

JaneDoe == <<"Jane", "SP", "Doe">>
JohnSmith == <<"John", "SP", "Smith">>

\* authors of a copyright statement: the default name, a name with a
\* period, and a name whose first two letters are "by"
StmtAuthors == {DefaultAuthors, <<"J", ".", "SP", "Smith">>,
                <<"by", "ron", "SP", "Lee">>}

\* an input file is described by the parts it is built from
Shapes ==
  [layout : {"empty", "none", "one", "two", "apart"},
   crlf : BOOLEAN,
   blanks : 0..MaxBlank,
   thisprog : BOOLEAN,
   yr : {"none", "cright", "range", "csplit"},
   cstmt : {"none", "good", "bad"},
   y2 : BOOLEAN,
   by : BOOLEAN,
   cauthor : StmtAuthors,
   orig : {<<>>, JaneDoe},
   init : {"none", "same", "split"},
   atauthor : {<<>>, JohnSmith},
   since : BOOLEAN]

HasFirst(g) == g.layout \in {"one", "two", "apart"}

HasSecond(g) == g.layout \in {"two", "apart"}

\* one shape per file: a part the layout does not use has a fixed value
Canonical(g) ==
  /\ g.layout = "empty" => ~g.crlf /\ g.atauthor = <<>> /\ ~g.since
  /\ g.layout # "two" => g.blanks = 0
  /\ ~HasFirst(g) => ~g.thisprog /\ g.yr = "none"
  /\ g.thisprog => g.yr \in {"none", "cright"}
  /\ ~HasSecond(g) => g.cstmt = "none" /\ g.orig = <<>> /\ g.init = "none"
  /\ g.cstmt = "none" => ~g.y2 /\ ~g.by /\ g.cauthor = DefaultAuthors
  /\ g.cstmt = "bad" => g.y2 /\ ~g.by /\ g.cauthor = DefaultAuthors
  /\ g.cstmt # "none" =>
        \/ g.orig = <<>> /\ g.init = "none"
        \/ g.orig # <<>> /\ g.init = "same" /\ g.cauthor = DefaultAuthors

Gens == {g \in Shapes : Canonical(g)}

NL(g) == IF g.crlf THEN <<"CR", "LF">> ELSE <<"LF">>

RECURSIVE Blank(_, _)
Blank(g, n) == IF n = 0 THEN <<>> ELSE NL(g) \o Blank(g, n - 1)

YrLines(g) ==
  CASE g.yr = "none" -> <<>>
    [] g.yr = "cright" ->
         <<"SP", "*", "SP", "(C)", "SP", "Copyright", "SP">> \o FirstY1
           \o <<"-">> \o FirstY2
           \o <<",", "SP", "by", "SP", "Barak", "SP", "Naveh", "SP", "and",
                "SP", "Contributors", ".">> \o NL(g)
    [] g.yr = "range" ->
         <<"SP", "*", "SP", "Copyright", "SP">> \o FirstY1 \o <<"-">>
           \o FirstY2 \o NL(g)
    [] g.yr = "csplit" ->
         <<"SP", "*", "SP", "(C)">> \o NL(g) \o <<"SP", "*", "SP">>
           \o FirstY1 \o <<"-">> \o FirstY2 \o NL(g)

Block1(g) ==
  <<"/*", "SP">>
    \o (IF g.thisprog THEN <<"This", "SP", "program", "SP">> ELSE <<>>)
    \o <<"JGraphT">> \o NL(g) \o YrLines(g) \o <<"SP", "*/">>

StmtLine(g) ==
  CASE g.cstmt = "none" -> <<>>
    [] g.cstmt = "good" ->
         <<"SP", "*", "SP", "(C)", "SP", "Copyright", "SP">> \o StmtY1
           \o (IF g.y2 THEN <<"-">> \o StmtY2 ELSE <<>>)
           \o <<",", "SP">> \o (IF g.by THEN <<"by", "SP">> ELSE <<>>)
           \o g.cauthor \o <<"SP", "and", "SP", "Contributors", ".">>
           \o NL(g)
    [] g.cstmt = "bad" ->
         <<"SP", "*", "SP", "(C)", "SP">> \o StmtY1 \o <<"SP">>
           \o g.cauthor \o NL(g)

OrigLine(g) ==
  IF g.orig = <<>> THEN <<>>
  ELSE <<"SP", "*", "SP", "Original", "SP", "Author:", "SP", "SP">>
         \o g.orig \o NL(g)

InitLine(g) ==
  CASE g.init = "none" -> <<>>
    [] g.init = "same" ->
         <<"SP", "*", "SP", "2", "4", "-", "Jul", "-">> \o InitY
           \o <<"SP", ":", "SP", "Initial", "SP", "revision">> \o NL(g)
    [] g.init = "split" ->
         <<"SP", "*", "SP">> \o InitY \o NL(g)
           \o <<"SP", "*", "SP", "Initial", "SP", "revision">> \o NL(g)

Block2(g) ==
  <<"/*", "SP", "Graph.java">> \o NL(g) \o StmtLine(g) \o OrigLine(g)
    \o InitLine(g) \o <<"SP", "*/">>

\* the class with its documentation comment, which holds the tags
Body(g) ==
  <<"package">> \o NL(g)
    \o (IF g.atauthor = <<>> /\ ~g.since THEN <<>>
        ELSE <<"/*", "*">> \o NL(g)
               \o (IF g.atauthor = <<>> THEN <<>>
                   ELSE <<"SP", "*", "SP", "@author", "SP">> \o g.atauthor
                          \o NL(g))
               \o (IF g.since THEN <<"SP", "*", "SP", "@since", "SP", "Jul",
                                     "SP", "2", "4", ",", "SP">> \o SinceY
                                     \o NL(g)
                   ELSE <<>>)
               \o <<"SP", "*/">> \o NL(g))
    \o <<"class">> \o NL(g)

Build(g) ==
  CASE g.layout = "empty" -> <<>>
    [] g.layout = "none" -> Body(g)
    [] g.layout = "one" -> Block1(g) \o NL(g) \o Body(g)
    [] g.layout = "two" ->
         Block1(g) \o NL(g) \o Blank(g, g.blanks) \o Block2(g) \o NL(g)
           \o Body(g)
    [] g.layout = "apart" ->
         Block1(g) \o NL(g) \o <<"import">> \o NL(g) \o Block2(g)
           \o NL(g) \o Body(g)

\* ------------------------------------------------------------ the script
VARIABLES
  gen,          \* the parts the file on disk was written from
  file,         \* the content of the file on disk
  filename,     \* sys.argv[1]
  data,         \* the memory map of the file
  authors,      \* the script's variable authors
  year,         \* the script's variable year
  author,       \* the script's variable author (line 86)
  firstHeader,  \* group 1 of the double or single header
  secondHeader, \* group 2 of the double header
  taken,        \* the fields among authors, year assigned since the start
  out,          \* the lines written to standard output, oldest first
  status,       \* "running", "exit0" or "exception"
  exc,          \* the message of the uncaught exception, if any
  pc,           \* the position of the run in the script
  run,          \* the number of the current invocation
  prevOut,      \* out, status and exc of the previous invocation
  prevStatus,
  prevExc

vars == <<gen, file, filename, data, authors, year, author, firstHeader,
          secondHeader, taken, out, status, exc, pc, run, prevOut,
          prevStatus, prevExc>>

io == <<gen, file, filename, run, prevOut, prevStatus, prevExc>>

FileNames == {"Graph.java"}

\* the warning sink of lines 6-12 prints the bare message
Warning(text, tail) == <<text, filename, tail>>

NoAuthor2nd ==
  Warning("Cannot find original author in 2nd header: ",
          "; using default author\n")

NoYear2nd ==
  Warning("Cannot find Initial version in 2nd header: ",
          "; using default year\n")

NoAuthor == Warning("Cannot find author in data: ", "; using default author\n")

NoYear == Warning("Cannot find year in data: ", "; using default year\n")

NoHeaders == Warning("Did not find any headers: ", "\n")

\* line 101
CopyrightLine ==
  <<"(C) Copyright ">> \o year \o <<"-2016, by ">> \o authors
    \o <<", and Contributors.", " ", filename>>

\* lines 14-16: the state a run begins in
Start ==
  /\ data = <<>>
  /\ authors = DefaultAuthors
  /\ year = DefaultYear
  /\ author = <<>>
  /\ firstHeader = <<>>
  /\ secondHeader = <<>>
  /\ taken = {}
  /\ out = <<>>
  /\ status = "running"
  /\ exc = <<>>
  /\ pc = "open"

Init ==
  /\ gen \in Gens
  /\ file = Build(gen)
  /\ filename \in FileNames
  /\ run = 1
  /\ prevOut = <<>>
  /\ prevStatus = "none"
  /\ prevExc = <<>>
  /\ Start

\* an uncaught exception ends the run
Raise(message) ==
  /\ status' = "exception"
  /\ exc' = message
  /\ pc' = "done"

\* lines 18-19: mmap.mmap(f.fileno(), 0) raises on a file of length zero
Open ==
  /\ pc = "open"
  /\ IF file = <<>>
     THEN /\ Raise(<<"cannot mmap an empty file">>)
          /\ UNCHANGED data
     ELSE /\ data' = file
          /\ pc' = "double"
          /\ UNCHANGED <<status, exc>>
  /\ UNCHANGED <<io, authors, year, author, firstHeader, secondHeader,
                 taken, out>>

\* lines 24-29 and 75
SearchDoubleHeader ==
  /\ pc = "double"
  /\ LET p == DoubleHeader(data)
     IN IF p.ok
        THEN /\ firstHeader' = p.g1
             /\ secondHeader' = p.g2
             /\ pc' = "marker"
        ELSE /\ pc' = "single"
             /\ UNCHANGED <<firstHeader, secondHeader>>
  /\ UNCHANGED <<io, data, authors, year, author, taken, out, status, exc>>

\* lines 32-34 and 50
CheckCopyrightMarker ==
  /\ pc = "marker"
  /\ pc' = IF HasCMarker(secondHeader) THEN "statement" ELSE "origauthor"
  /\ UNCHANGED <<io, data, authors, year, author, firstHeader, secondHeader,
                 taken, out, status, exc>>

\* ParseCopyrightStatement with the failure reported as a warning before
\* the exception is raised
ParseCopyrightStatement_Warns ==
  /\ pc = "statement"
  /\ LET p == CopyrightStatement(secondHeader)
     IN IF ~p.ok
        THEN /\ Raise(<<"Cannot parse copyright statement in 2nd header: ",
                        filename, "\n">> \o secondHeader)
             /\ out' = Append(out, Warning("Cannot parse copyright statement: ",
                                           "\n"))
             /\ UNCHANGED <<authors, year, taken>>
        ELSE /\ year' = p.g1
             /\ authors' = p.g4
             /\ taken' = {"authors", "year"}
             /\ pc' = "contributors"
             /\ UNCHANGED <<status, exc, out>>
  /\ UNCHANGED <<io, data, author, firstHeader, secondHeader>>

\* lines 37-42
ParseCopyrightStatement ==
  /\ pc = "statement"
  /\ LET p == CopyrightStatement(secondHeader)
     IN IF ~p.ok
        THEN /\ Raise(<<"Cannot parse copyright statement in 2nd header: ",
                        filename, "\n">> \o secondHeader)
             /\ UNCHANGED <<authors, year, taken>>
        ELSE /\ year' = p.g1
             /\ authors' = p.g4
             /\ taken' = {"authors", "year"}
             /\ pc' = "contributors"
             /\ UNCHANGED <<status, exc>>
  /\ UNCHANGED <<io, data, author, firstHeader, secondHeader, out>>

\* lines 44-48
StripContributors ==
  /\ pc = "contributors"
  /\ LET p == AndSuffix(authors)
     IN authors' = RemovePeriods(IF p.ok THEN p.g1 ELSE authors)
  /\ pc' = "print"
  /\ UNCHANGED <<io, data, year, author, firstHeader, secondHeader, taken,
                 out, status, exc>>

\* lines 52-61
SearchOriginalAuthor ==
  /\ pc = "origauthor"
  /\ LET p == OriginalAuthor(secondHeader)
         p2 == AuthorTag(data)
     IN IF p.ok
        THEN authors' = p.g1 /\ taken' = taken \cup {"authors"}
                             /\ UNCHANGED out
        ELSE IF p2.ok
             THEN authors' = p2.g3 /\ taken' = taken \cup {"authors"}
                                   /\ UNCHANGED out
             ELSE out' = Append(out, NoAuthor2nd)
                    /\ UNCHANGED <<authors, taken>>
  /\ pc' = "initial"
  /\ UNCHANGED <<io, data, year, author, firstHeader, secondHeader, status,
                 exc>>

\* lines 64-68
SearchInitialVersion ==
  /\ pc = "initial"
  /\ LET p == InitialVersion(secondHeader)
     IN IF p.ok
        THEN year' = p.g2 /\ taken' = taken \cup {"year"} /\ pc' = "print"
        ELSE pc' = "range" /\ UNCHANGED <<year, taken>>
  /\ UNCHANGED <<io, data, authors, author, firstHeader, secondHeader, out,
                 status, exc>>

\* lines 69-74
SearchFirstHeaderYear ==
  /\ pc = "range"
  /\ LET p == YearRange(firstHeader)
     IN IF ~p.ok
        THEN out' = Append(out, NoYear2nd) /\ UNCHANGED <<year, taken>>
        ELSE year' = p.g1 /\ taken' = taken \cup {"year"} /\ UNCHANGED out
  /\ pc' = "print"
  /\ UNCHANGED <<io, data, authors, author, firstHeader, secondHeader,
                 status, exc>>

\* lines 77-80 and 98-99
SearchSingleHeader ==
  /\ pc = "single"
  /\ LET p == SingleHeader(data)
     IN IF p.ok
        THEN /\ firstHeader' = p.g1
             /\ pc' = "author"
             /\ UNCHANGED out
        ELSE /\ out' = Append(out, NoHeaders)
             /\ pc' = "print"
             /\ UNCHANGED firstHeader
  /\ UNCHANGED <<io, data, authors, year, author, secondHeader, taken,
                 status, exc>>

\* lines 83-88: the match is stored in author, authors is not assigned
SearchAuthor ==
  /\ pc = "author"
  /\ LET p == AuthorTagLazy(data)
     IN IF p.ok
        THEN author' = p.g3 /\ UNCHANGED out
        ELSE out' = Append(out, NoAuthor) /\ UNCHANGED author
  /\ pc' = "since"
  /\ UNCHANGED <<io, data, authors, year, firstHeader, secondHeader, taken,
                 status, exc>>

\* lines 91-96
SearchSince ==
  /\ pc = "since"
  /\ LET p == SinceTag(data)
     IN IF p.ok
        THEN year' = p.g2 /\ taken' = taken \cup {"year"} /\ UNCHANGED out
        ELSE out' = Append(out, NoYear) /\ UNCHANGED <<year, taken>>
  /\ pc' = "print"
  /\ UNCHANGED <<io, data, authors, author, firstHeader, secondHeader,
                 status, exc>>

\* PrintCopyright with the line also written over the start of the file
\* through the read/write memory map
PrintCopyright_Rewrites ==
  /\ pc = "print"
  /\ out' = Append(out, CopyrightLine)
  /\ file' = <<"/*">> \o CopyrightLine \o <<"*/", "LF">> \o file
  /\ status' = "exit0"
  /\ pc' = "done"
  /\ UNCHANGED <<gen, filename, run, prevOut, prevStatus, prevExc, data,
                 authors, year, author, firstHeader, secondHeader, taken, exc>>

\* line 101, then the end of the script
PrintCopyright ==
  /\ pc = "print"
  /\ out' = Append(out, CopyrightLine)
  /\ status' = "exit0"
  /\ pc' = "done"
  /\ UNCHANGED <<io, data, authors, year, author, firstHeader, secondHeader,
                 taken, exc>>

\* line 2 and lines 14-16: the driver runs the script again on the same file
Invoke ==
  /\ pc = "done"
  /\ run < MaxRuns
  /\ run' = run + 1
  /\ prevOut' = out
  /\ prevStatus' = status
  /\ prevExc' = exc
  /\ data' = <<>>
  /\ authors' = DefaultAuthors
  /\ year' = DefaultYear
  /\ author' = <<>>
  /\ firstHeader' = <<>>
  /\ secondHeader' = <<>>
  /\ taken' = {}
  /\ out' = <<>>
  /\ status' = "running"
  /\ exc' = <<>>
  /\ pc' = "open"
  /\ UNCHANGED <<gen, file, filename>>

Next ==
  \/ Open
  \/ SearchDoubleHeader
  \/ CheckCopyrightMarker
  \/ ParseCopyrightStatement
  \/ StripContributors
  \/ SearchOriginalAuthor
  \/ SearchInitialVersion
  \/ SearchFirstHeaderYear
  \/ SearchSingleHeader
  \/ SearchAuthor
  \/ SearchSince
  \/ PrintCopyright
  \/ Invoke

Spec == Init /\ [][Next]_vars

\* ------------------------------------------------------------ the claims
\* the copyright line of a record (year y, authors a), as section 6 gives it
Record(y, a) ==
  <<"(C) Copyright ">> \o y \o <<"-2016, by ">> \o a
    \o <<", and Contributors.", " ", filename>>

IsCopyrightLine(l) ==
  /\ Len(l) >= 5
  /\ l[1] = "(C) Copyright "
  /\ \E m \in 2..(Len(l) - 3) : l[m] = "-2016, by "
  /\ SubSeq(l, Len(l) - 2, Len(l)) = <<", and Contributors.", " ", filename>>

AuthorWarnings == {NoAuthor2nd, NoAuthor}

YearWarnings == {NoYear2nd, NoYear}

IsWarning(l) == l \in AuthorWarnings \cup YearWarnings \cup {NoHeaders}

\* the number of lines of out that are in the set W
Count(W) == Cardinality({i \in 1..Len(out) : out[i] \in W})

Ended == pc = "done"

EndedNormally == pc = "done" /\ status = "exit0"

\* a text without its periods
NoPeriods(a) == SelectSeq(a, LAMBDA c : c # ".")

\* the hard failure of section 4.1 step 2a, as a property of a file content
FatalCase(f) ==
  /\ DoubleHeader(f).ok
  /\ HasCMarker(DoubleHeader(f).g2)
  /\ ~CopyrightStatement(DoubleHeader(f).g2).ok

\* the file has a recognised double header whose second block has no (C)
NoMarkerCase ==
  /\ HasSecond(gen)
  /\ gen.cstmt = "none"
  /\ DoubleHeader(file).ok

\* the file has a recognised double header whose second block holds a
\* statement "(C) Copyright Y1[-Y2], [by] A and Contributors."
StatementCase ==
  /\ HasSecond(gen)
  /\ gen.cstmt = "good"
  /\ DoubleHeader(file).ok

\* the file has one block comment, which begins with "This program", and
\* holds an @author tag and an @since tag
SingleTagsCase ==
  /\ gen.layout = "one"
  /\ gen.thisprog
  /\ gen.atauthor # <<>>
  /\ gen.since

\* C1: a run ends with an error if and only if the double header matched,
\* its second block holds (C) and the copyright statement does not match
\* it; every other file, the empty file included, ends with exit status 0.
C1_ErrorIffFatal ==
  Ended => (status = "exception" <=> FatalCase(file))

\* C2: a run that ends normally has printed exactly one copyright line, of
\* the form of section 6 for its year and authors, as its last line of
\* output, after warnings only; a run that raised has printed nothing; and
\* a copyright line is in the output only once the run has ended.
C2_OneCopyrightLineLast ==
  /\ \A i \in 1..Len(out) :
       IF IsCopyrightLine(out[i])
       THEN i = Len(out) /\ EndedNormally
       ELSE IsWarning(out[i])
  /\ EndedNormally =>
       /\ Len(out) >= 1
       /\ IsCopyrightLine(out[Len(out)])
       /\ out[Len(out)] = Record(year, authors)
  /\ status = "exception" => out = <<>>

\* C2, witness: a run that printed two warnings has ended normally
C2_Witness ==
  /\ EndedNormally
  /\ Len(out) = 3
  /\ IsWarning(out[1]) /\ IsWarning(out[2])

\* C3: a file with a single "This program" header, "@author NAME" and
\* "@since ... YYYY" prints the record of NAME and YYYY and no warning.
C3_SingleHeaderTags ==
  Ended /\ SingleTagsCase =>
    status = "exit0" /\ out = <<Record(SinceY, gen.atauthor)>>

\* C4: a double header whose second block holds the statement
\* "(C) Copyright Y1[-Y2], [by] A and Contributors." prints the record of
\* Y1 and of A without its periods, and no warning, whatever tags and
\* "Original Author:" / "Initial" lines the file holds.
C4_StatementRecord ==
  Ended /\ StatementCase =>
    status = "exit0" /\ out = <<Record(StmtY1, NoPeriods(gen.cauthor))>>

\* C5 as stated: with no (C) in the second block the year is the year that
\* "Initial" follows; else the second year of a year range of the first
\* block, whenever the first block holds a year range; else the default
\* year with exactly one year warning.
C5_YearCascadeAsStated ==
  EndedNormally /\ NoMarkerCase =>
    /\ gen.init = "same" => year = InitY /\ Count(YearWarnings) = 0
    /\ gen.init = "none" /\ gen.yr # "none" =>
         year = FirstY2 /\ Count(YearWarnings) = 0
    /\ gen.init = "none" /\ gen.yr = "none" =>
         year = DefaultYear /\ out[Len(out) - 1] = NoYear2nd
                            /\ Count(YearWarnings) = 1

\* C5 as amended: with no (C) in the second block the year is the four
\* digits that "Initial" follows on the same line of the second block;
\* else the second year of a year range that follows the marker (C) on the
\* same line of the first block; else (also when the first block holds a
\* year range that no (C) precedes on its line) the default year, with
\* exactly one year warning.  The printed line carries that year.
C5_YearCascade ==
  EndedNormally /\ NoMarkerCase =>
    /\ out[Len(out)] = Record(year, authors)
    /\ gen.init = "same" => year = InitY /\ Count(YearWarnings) = 0
    /\ gen.init # "same" /\ gen.yr = "cright" =>
         year = FirstY2 /\ Count(YearWarnings) = 0
    /\ gen.init # "same" /\ gen.yr # "cright" =>
         year = DefaultYear /\ out[Len(out) - 1] = NoYear2nd
                            /\ Count(YearWarnings) = 1

\* C5, witness: no (C) in the second block, no "Initial" year, and the
\* year came from the range after (C) in the first block
C5_Witness ==
  /\ EndedNormally /\ NoMarkerCase
  /\ gen.init = "none" /\ gen.yr = "cright"
  /\ year = FirstY2

\* C6: with no (C) in the second block, authors is the NAME of the
\* "Original Author: NAME" line if the second block has one, else the NAME
\* of the @author tag if the file has one, else the default author with
\* exactly one author warning; whichever year heuristic matched.
C6_AuthorPriority ==
  EndedNormally /\ NoMarkerCase =>
    /\ gen.orig # <<>> => authors = gen.orig /\ Count(AuthorWarnings) = 0
    /\ gen.orig = <<>> /\ gen.atauthor # <<>> =>
         authors = gen.atauthor /\ Count(AuthorWarnings) = 0
    /\ gen.orig = <<>> /\ gen.atauthor = <<>> =>
         authors = DefaultAuthors /\ out[1] = NoAuthor2nd
                                  /\ Count(AuthorWarnings) = 1
    /\ out[Len(out)] = Record(year, authors)

\* C7: a file that neither the double-header nor the single-header pattern
\* matches prints the "Did not find any headers" warning and then the
\* record of the default year and author, and nothing else.
C7_NoHeaderDefaults ==
  Ended /\ ~DoubleHeader(file).ok /\ ~SingleHeader(file).ok =>
    /\ status = "exit0"
    /\ out = <<NoHeaders, Record(DefaultYear, DefaultAuthors)>>

\* C8: the content of the file stays what it was written as, on every
\* path, and a later run on the file ends with the output, the exit status
\* and the error of the run before it.
C8_FileUnchanged ==
  /\ file = Build(gen)
  /\ run > 1 /\ Ended =>
       out = prevOut /\ status = prevStatus /\ exc = prevExc

\* C8, witness: a second run on a file with warnings has ended
C8_Witness ==
  /\ run = 2 /\ EndedNormally
  /\ Len(out) >= 2
  /\ prevStatus = "exit0"

\* C9: in a run that ends normally, a field that no heuristic took from
\* the file comes with a warning printed before the copyright line, so a
\* run without a warning took both fields from the file; at most two
\* warnings are printed.
C9_DefaultsAreWarned ==
  EndedNormally =>
    /\ taken # {"authors", "year"} => Len(out) >= 2 /\ IsWarning(out[1])
    /\ Len(out) <= 3

\* C10: two block comments separated by a line break and any number of
\* blank lines, LF or CRLF, are recognised as a double header; the
\* single-header heuristics run only when no double header is recognised.
C10_DoubleHeaderRecognised ==
  /\ gen.layout = "two" /\ pc \notin {"open", "double"} =>
       secondHeader = SubSeq(Block2(gen), 2, Len(Block2(gen)) - 1)
  /\ pc \in {"single", "author", "since"} =>
       ~DoubleHeader(file).ok /\ secondHeader = <<>>

====
